---- MODULE Spec2Model ----
(***************************************************************************)
(* Quercus.js Treeview (src/src/treeview.js): the selection, expansion and *)
(* search state of one Treeview instance, as a state machine.              *)
(*                                                                         *)
(* A tree is the sequence of its nodes in document order (the order of     *)
(* querySelectorAll('li')); a node is named by its position in it, which   *)
(* stands for its <li> element.  Names are sequences of characters so that *)
(* toLowerCase() and includes() are computed, not assumed.                 *)
(***************************************************************************)
EXTENDS Integers, Sequences, FiniteSets, TLC

\* ------------------------------------------------------------------ bounds
\* How many of the trees of ShallowTrees the host may pass as data.
MaxTrees == 2
\* How many of the queries of QueryList the host may search for.
MaxQueries == 3
\* How many payloads (dataset.nodeData) of a rendered tree get corrupted.
MaxCorrupt == 1
\* How many requestAnimationFrame callbacks, and how many transitionend
\* listeners of one child list, are pending at a time.
MaxPending == 1
\* How many of the trees of DeepTrees the host may pass as data.
MaxDeepTrees == 2

\* ------------------------------------------------------------- input data
Apple == <<"A", "p", "p", "l", "e">>
Banana == <<"B", "a", "n", "a", "n", "a">>
BananaJr == <<"B", "a", "n", "a", "n", "a", " ", "J", "r">>
Junior == <<"j", "r">>
NoName == <<>>

\* parent = 0: a root node.  A parent always precedes its children.
ShallowTrees ==
  << \* the tree of the README / scenario: a, b > b1
     << [id |-> "a", name |-> Apple, parent |-> 0],
        [id |-> "b", name |-> Banana, parent |-> 0],
        [id |-> "b1", name |-> BananaJr, parent |-> 2] >>,
     \* a chain: r > c > g
     << [id |-> "r", name |-> Apple, parent |-> 0],
        [id |-> "c", name |-> Banana, parent |-> 1],
        [id |-> "g", name |-> Junior, parent |-> 2] >>,
     \* a root with two leaves, one without a name
     << [id |-> "r", name |-> Junior, parent |-> 0],
        [id |-> "c", name |-> Banana, parent |-> 1],
        [id |-> "n", name |-> NoName, parent |-> 1] >> >>

\* Trees on which breadth-first and depth-first order differ.
DeepTrees ==
  << \* r > (a > a1, b)
     << [id |-> "r", name |-> Apple, parent |-> 0],
        [id |-> "a", name |-> Banana, parent |-> 1],
        [id |-> "a1", name |-> BananaJr, parent |-> 2],
        [id |-> "b", name |-> Junior, parent |-> 1] >>,
     \* x > (y > y1 > y11, z > z1)
     << [id |-> "x", name |-> Apple, parent |-> 0],
        [id |-> "y", name |-> Banana, parent |-> 1],
        [id |-> "y1", name |-> BananaJr, parent |-> 2],
        [id |-> "y11", name |-> Junior, parent |-> 3],
        [id |-> "z", name |-> Banana, parent |-> 1],
        [id |-> "z1", name |-> NoName, parent |-> 5] >>,
     \* two roots: p > (q > q1, s), t > t1
     << [id |-> "p", name |-> Apple, parent |-> 0],
        [id |-> "q", name |-> Banana, parent |-> 1],
        [id |-> "q1", name |-> Junior, parent |-> 2],
        [id |-> "s", name |-> Banana, parent |-> 1],
        [id |-> "t", name |-> Apple, parent |-> 0],
        [id |-> "t1", name |-> NoName, parent |-> 5] >> >>

TreeList == ShallowTrees \o DeepTrees

QueryList ==
  << <<>>,
     <<"j", "r">>,
     <<"A">>,
     <<"z">> >>

Min(a, b) == IF a < b THEN a ELSE b
TreeIds == 1..Min(MaxTrees, Len(ShallowTrees))
DeepTreeIds ==
  {Len(ShallowTrees) + k : k \in 1..Min(MaxDeepTrees, Len(DeepTrees))}
Queries == {QueryList[k] : k \in 1..Min(MaxQueries, Len(QueryList))}

\* ------------------------------------------------------------ the options
\* containerId: "null" (the default), "missing" (no element has this id) or
\* "present".  Spec mounts the tree and leaves the options of the controls at
\* their defaults; SpecMount varies them.
OptionSets ==
  [containerId : {"present"},
   searchEnabled : {FALSE},
   initiallyExpanded : BOOLEAN,
   multiSelectEnabled : BOOLEAN,
   onSelectionChange : BOOLEAN,      \* TRUE: a function was supplied
   showSelectAllButton : {FALSE},
   showExpandCollapseAllButtons : {FALSE},
   nodeSelectionEnabled : BOOLEAN,
   cascadeSelectChildren : BOOLEAN,
   checkboxSelectionEnabled : BOOLEAN]

VARIABLES
  options,        \* this.options (but data)
  data,           \* this.options.data: the index of the rendered tree in TreeList
  selectedNodes,  \* this.selectedNodes: a Set, kept in insertion order
  selectedClass,  \* the <li> carrying class 'selected'
  checked,        \* the <li> whose checkbox is checked
  expanded,       \* the <li> carrying class 'expanded'
  hidden,         \* the <li> carrying class 'hidden'
  highlight,      \* the <li> carrying class 'highlight'
  searchTerm,     \* the term of the last _searchTree on the rendered tree
  notifications,  \* the payloads given to onSelectionChange by the last operation
  selChanged,     \* whether the last operation changed the set of selected nodes
  lastOp,         \* the last operation and its arguments
  dom,            \* the container: this.treeviewContainer, the controls in it,
                  \* the text of this.selectAllButton, the <li> whose
                  \* dataset.nodeData no longer parses
  anim,           \* style.height of the child lists, their transitionend
                  \* listeners, the pending requestAnimationFrame callbacks
  run             \* what the console got from _initialize, whether the last
                  \* operation threw, the position inside a running handler,
                  \* the locals of the last _getAllDescendants call

vars == <<options, data, selectedNodes, selectedClass, checked, expanded,
          hidden, highlight, searchTerm, notifications, selChanged, lastOp,
          dom, anim, run>>

\* ------------------------------------------------------ the rendered tree
Tree == TreeList[data]
\* this.treeviewContainer is an element: _initialize went past its two returns.
Mounted == dom.container = "element"
\* querySelectorAll('li'): nothing is rendered without a container.
AllListItems == IF Mounted THEN 1..Len(Tree) ELSE {}
ParentOf(t, i) == TreeList[t][i].parent
Range(s) == {s[k] : k \in 1..Len(s)}

\* Mutant: every <li> below the node, as querySelectorAll('li') gives them.
DescendantItemsOf(t, i) ==
  LET Below[j \in 0..Len(TreeList[t])] ==
        IF j = 0 THEN FALSE
        ELSE ParentOf(t, j) = i \/ Below[ParentOf(t, j)]
  IN SelectSeq([k \in 1..Len(TreeList[t]) |-> k], LAMBDA j : Below[j])
\* The <li> of childUl.children, in order.
ChildrenOf(t, i) ==
  SelectSeq([k \in 1..Len(TreeList[t]) |-> k], LAMBDA j : ParentOf(t, j) = i)

\* node.children && node.children.length > 0: class 'has-children'
HasChildren(t, i) == \E j \in 1..Len(TreeList[t]) : ParentOf(t, j) = i
\* Mutant: every <li> gets class 'has-children'.
AllItemsHaveChildren(t) == 1..Len(TreeList[t])
HasChildrenItems(t) == {i \in 1..Len(TreeList[t]) : HasChildren(t, i)}

\* JSON.parse(li.dataset.nodeData): the node's data as given by the host.
NodeData(t, i) == [id |-> TreeList[t][i].id, name |-> TreeList[t][i].name]

\* getDisplayNameFromNodeElement: the name of the payload, 'Unnamed Node' when
\* the payload does not parse.
UnnamedNode == <<"U", "n", "n", "a", "m", "e", "d", " ", "N", "o", "d", "e">>
GetDisplayNameFromNodeElement(t, i) ==
  IF i \in dom.corrupt THEN UnnamedNode ELSE NodeData(t, i).name

\* The try / catch of getSelectedNodes and _triggerSelectionChange around
\* JSON.parse(nodeElement.dataset.nodeData).
ReadBack(t, i) ==
  IF i \in dom.corrupt
  THEN [id |-> TreeList[t][i].id, name |-> GetDisplayNameFromNodeElement(t, i)]
  ELSE NodeData(t, i)

\* ------------------------------------------------------- _createControls
\* The condition under which this.selectAllButton is created.
HasSelectAllButton(opts) ==
  /\ opts.showSelectAllButton /\ opts.multiSelectEnabled
  /\ opts.nodeSelectionEnabled /\ ~opts.cascadeSelectChildren

\* The elements _createControls appends to the container: the search input,
\* then the button container, which is appended only when it holds a button.
CreateControls(opts) ==
  LET buttons ==
        (IF HasSelectAllButton(opts) THEN <<"treeview-select-all">> ELSE <<>>)
        \o (IF opts.showExpandCollapseAllButtons
            THEN <<"treeview-expand-all", "treeview-collapse-all">> ELSE <<>>)
  IN (IF opts.searchEnabled
      THEN <<[tag |-> "input", buttons |-> <<>>]>> ELSE <<>>)
     \o (IF buttons # <<>>
         THEN <<[tag |-> "div", buttons |-> buttons]>> ELSE <<>>)

\* textContent of a new select-all button ("": there is no button).
CreatedLabel(opts) == IF HasSelectAllButton(opts) THEN "Select All" ELSE ""

\* ------------------------------------------------- a Set in insertion order
\* Mutant: a new element is put first.
SetAddFirst(s, e) == IF e \in Range(s) THEN s ELSE <<e>> \o s
SetAdd(s, e) == IF e \in Range(s) THEN s ELSE Append(s, e)
\* Mutant: Set.prototype.delete removes nothing.
SetDeleteKept(s, e) == s
SetDelete(s, e) == SelectSeq(s, LAMBDA x : x # e)
RECURSIVE SetAddAll(_, _)
SetAddAll(s, es) ==
  IF es = <<>> THEN s ELSE SetAddAll(SetAdd(s, Head(es)), Tail(es))

\* --------------------------------------------------- _getAllDescendants
\* The worklist loop: queue[head] is dequeued, its children are appended to
\* descendants and to the queue.
RECURSIVE DescendantsLoop(_, _, _, _)
DescendantsLoop(t, queue, head, descendants) ==
  IF head > Len(queue) THEN descendants
  ELSE LET kids == ChildrenOf(t, queue[head])
       IN DescendantsLoop(t, queue \o kids, head + 1, descendants \o kids)

\* Mutant: only the children, the worklist is not continued.
GetChildrenOnly(t, i) == ChildrenOf(t, i)
GetAllDescendants(t, i) == DescendantsLoop(t, <<i>>, 1, <<>>)

\* ------------------------------------------------- _triggerSelectionChange
\* Array.from(this.selectedNodes).map(JSON.parse(dataset.nodeData))
SelectedData(sel) == [k \in 1..Len(sel) |-> ReadBack(data, sel[k])]

\* Mutant: the callback is invoked only when the set of selected nodes changed.
TriggerOnlyOnChange(sel) ==
  IF options.onSelectionChange /\ Range(sel) # Range(selectedNodes)
  THEN <<SelectedData(sel)>> ELSE <<>>

\* The calls of options.onSelectionChange made by one _triggerSelectionChange.
TriggerSelectionChange(sel) ==
  IF options.onSelectionChange THEN <<SelectedData(sel)>> ELSE <<>>

\* The text of the select-all button after _triggerSelectionChange, the
\* selection being sel.
TriggerLabel(sel) ==
  IF dom.label # "" /\ options.multiSelectEnabled /\ options.nodeSelectionEnabled
  THEN IF Cardinality(AllListItems) > 0 /\ Len(sel) = Cardinality(AllListItems)
       THEN "Deselect All" ELSE "Select All"
  ELSE dom.label

\* ------------------------------------------------------------ _selectNode
\* Mutant: the guard is missing.
SelectionNeverDisabled == FALSE

\* The guard of _selectNode and of _toggleSelectAll.
SelectionDisabled == ~options.nodeSelectionEnabled

\* isSelected as _selectNode uses it: "null" is the default parameter.
\* chk: the checked checkboxes when _selectNode is entered.
EffectiveIsSelected(i, isSelected, chk) ==
  IF isSelected = "null"
  THEN IF options.checkboxSelectionEnabled
       THEN i \in chk
       ELSE i \notin Range(selectedNodes)
  ELSE isSelected = "true"

\* Mutant: the delete branch is missing.
MultiSelectAddOnly(sel, i, isSel) == SetAdd(sel, i)

\* multiSelectEnabled: this.selectedNodes after add / delete.
MultiSelect(sel, i, isSel) ==
  IF isSel THEN SetAdd(sel, i) ELSE SetDelete(sel, i)

\* The nodes added after the clear of the single-select branch.
SingleSelectAdded(i) ==
  IF options.cascadeSelectChildren
  THEN <<i>> \o GetAllDescendants(data, i)
  ELSE <<i>>

\* Mutant: this.selectedNodes.clear() is missing.
SingleSelectNoClear(sel, i, isSel) ==
  IF isSel THEN SetAddAll(sel, SingleSelectAdded(i)) ELSE sel

\* Mutant: isSelected is not looked at, the node is always selected.
SingleSelectAlways(sel, i, isSel) == SetAddAll(<<>>, SingleSelectAdded(i))

\* Single select: this.selectedNodes after clear() and the adds.
SingleSelect(sel, i, isSel) ==
  IF isSel THEN SetAddAll(<<>>, SingleSelectAdded(i)) ELSE <<>>

\* Mutant: the checkboxes of the other nodes are not unchecked.
SingleSelectCheckedKept(chk, i, isSel) ==
  IF isSel THEN chk \cup Range(SingleSelectAdded(i)) ELSE chk \ {i}

\* Single select with checkboxes: the checked checkboxes after all are
\* unchecked and those of the added nodes are checked.
SingleSelectChecked(chk, i, isSel) ==
  IF isSel THEN Range(SingleSelectAdded(i)) ELSE {}

\* The whole of _selectNode(li, isSelected), entered with checkboxes chk:
\* the new selectedNodes, 'selected' classes, checkboxes and the callback calls.
SelectNode(i, isSelected, chk) ==
  IF SelectionDisabled
  THEN [selectedNodes |-> selectedNodes, selectedClass |-> selectedClass,
        checked |-> chk, notifications |-> <<>>, label |-> dom.label]
  ELSE
    LET isSel == EffectiveIsSelected(i, isSelected, chk)
        hasCheckbox == options.checkboxSelectionEnabled
        sel == IF options.multiSelectEnabled
               THEN MultiSelect(selectedNodes, i, isSel)
               ELSE SingleSelect(selectedNodes, i, isSel)
        cls == IF options.multiSelectEnabled
               THEN IF isSel THEN selectedClass \cup {i} ELSE selectedClass \ {i}
               ELSE (selectedClass \ Range(selectedNodes))
                      \cup (IF isSel THEN Range(SingleSelectAdded(i)) ELSE {})
        chk2 == IF ~hasCheckbox THEN chk
                ELSE IF options.multiSelectEnabled
                THEN IF isSel THEN chk \cup {i} ELSE chk \ {i}
                ELSE SingleSelectChecked(chk, i, isSel)
    IN [selectedNodes |-> sel, selectedClass |-> cls, checked |-> chk2,
        notifications |-> TriggerSelectionChange(sel), label |-> TriggerLabel(sel)]

\* ------------------------------------------------------- _toggleSelectAll
\* Mutant: the cascadeSelectChildren guard is missing.
SelectAllGuardedNoCascade ==
  \/ SelectionDisabled
  \/ ~options.multiSelectEnabled

SelectAllGuarded ==
  \/ SelectionDisabled
  \/ ~options.multiSelectEnabled
  \/ options.cascadeSelectChildren

\* Mutant: select all only when nothing is selected.
ShouldSelectAllWhenEmpty == Len(selectedNodes) = 0

ShouldSelectAll ==
  Len(selectedNodes) = 0 \/ Len(selectedNodes) < Cardinality(AllListItems)

\* Mutant: only the <li> without class 'hidden' are selected.
ToggleSelectAllVisibleOnly ==
  IF ShouldSelectAll
  THEN SetAddAll(selectedNodes,
                 SelectSeq([k \in 1..Len(Tree) |-> k], LAMBDA x : x \notin hidden))
  ELSE SelectSeq(selectedNodes, LAMBDA x : x \notin AllListItems)
\* this.selectedNodes after the forEach over querySelectorAll('li').
ToggleSelectAllSelected ==
  IF ShouldSelectAll
  THEN SetAddAll(selectedNodes, [k \in 1..Len(Tree) |-> k])
  ELSE SelectSeq(selectedNodes, LAMBDA x : x \notin AllListItems)

\* -------------------------------------------------------------- _searchTree
ToLowerChar(c) ==
  CASE c = "A" -> "a" [] c = "B" -> "b" [] c = "J" -> "j" [] c = "R" -> "r"
    [] OTHER -> c
ToLowerCase(s) == [k \in 1..Len(s) |-> ToLowerChar(s[k])]

\* String.prototype.includes
Includes(text, term) ==
  \E k \in 0..(Len(text) - Len(term)) : SubSeq(text, k + 1, k + Len(term)) = term

\* The match test of the second pass.
Matches(t, i, term) ==
  Includes(ToLowerCase(NodeData(t, i).name), ToLowerCase(term))

MatchingNodes(t, term) == {i \in 1..Len(TreeList[t]) : Matches(t, i, term)}

\* The <li> met by the closest('ul') / closest('li') walk from item i.
RECURSIVE AncestorWalk(_, _)
AncestorWalk(t, i) ==
  IF ParentOf(t, i) = 0 THEN {}
  ELSE {ParentOf(t, i)} \cup AncestorWalk(t, ParentOf(t, i))

AncestorsToExpand(t, term) ==
  UNION {AncestorWalk(t, i) : i \in MatchingNodes(t, term)}

\* Mutants: the ancestors are highlighted too; the ancestors stay hidden;
\* only the parent of a match is expanded.
SearchHighlightAncestors(t, term) ==
  MatchingNodes(t, term) \cup AncestorsToExpand(t, term)
SearchHiddenAncestors(t, term) ==
  (1..Len(TreeList[t])) \ MatchingNodes(t, term)
SearchExpandedParents(t, term) ==
  {ParentOf(t, i) : i \in MatchingNodes(t, term)} \ {0}

\* The first <li>, in document order, whose payload does not parse (0: every
\* payload parses): JSON.parse of the match pass throws there.
FirstCorrupt ==
  IF dom.corrupt = {} THEN 0
  ELSE CHOOSE i \in dom.corrupt : \A j \in dom.corrupt : i <= j

\* Mutant: the reset pass does not remove class 'expanded'.
SearchExpandedKept(t, term) == expanded \cup AncestorsToExpand(t, term)
\* Classes after _searchTree(term), term # ''.
SearchHighlight(t, term) == MatchingNodes(t, term)
SearchHidden(t, term) ==
  (1..Len(TreeList[t])) \ (MatchingNodes(t, term) \cup AncestorsToExpand(t, term))
SearchExpanded(t, term) == AncestorsToExpand(t, term)

\* Mutant: the render never adds class 'expanded'.
DefaultCollapsed(t) == {}
\* Class 'expanded' after _searchTree('') and after a render.
DefaultExpanded(t) ==
  IF options.initiallyExpanded THEN HasChildrenItems(t) ELSE {}
\* Mutant: the expansion made by the user is kept.
ClearedExpandedKept(t) == expanded
ClearedExpanded(t) ==
  IF options.initiallyExpanded THEN HasChildrenItems(t) ELSE {}

\* ------------------------------------------------------------------ setData
\* Mutant: this.selectedNodes.clear() is missing.
SetDataSelectedKept == selectedNodes
SetDataSelected == <<>>

\* Mutant: the container is not emptied.
SetDataControlsKept == dom.controls
\* The controls left by this.treeviewContainer.innerHTML = ''.
SetDataCleared == <<>>

\* ---------------------------------------------------------- getSelectedNodes
GetSelectedNodes == SelectedData(selectedNodes)

\* ------------------------------------------------------------------- Init
\* The state after new Treeview(options): _createControls, _renderTree.
\* _initialize: what console.error gets before an early return.
InitializeErrors(opts) ==
  IF opts.containerId = "null" THEN <<"containerId is required.">>
  ELSE IF opts.containerId = "missing" THEN <<"Element with ID not found.">>
  ELSE <<>>

\* Mutant: the tree is rendered although there is no container.
InitializeAlways(opts) == TRUE

\* Whether _initialize gets to _createControls and _renderTree.
InitializeRenders(opts) == opts.containerId = "present"

\* The heights are followed by SpecAnim only, no handler is running.
NoAnimation == [height |-> <<>>, handlers |-> <<>>, moving |-> {}, frames |-> <<>>]
NoCall == [op |-> "", node |-> 0, isSelected |-> ""]
\* No _getAllDescendants has been called.
NoWalk == [active |-> FALSE, node |-> 0, queue |-> <<>>, head |-> 0,
           descendants |-> <<>>]

\* The state after new Treeview(options), but the animation.
Constructed(optionSets) ==
  /\ options \in optionSets
  /\ data \in TreeIds
  /\ selectedNodes = <<>>
  /\ selectedClass = {}
  /\ checked = {}
  /\ expanded = (IF InitializeRenders(options) THEN DefaultExpanded(data) ELSE {})
  /\ hidden = {}
  /\ highlight = {}
  /\ searchTerm = <<>>
  /\ notifications = <<>>
  /\ selChanged = FALSE
  /\ lastOp = [op |-> "new", node |-> 0, arg |-> ""]
  /\ dom = IF InitializeRenders(options)
           THEN [container |-> "element", controls |-> CreateControls(options),
                 label |-> CreatedLabel(options), corrupt |-> {}]
           ELSE [container |-> "null", controls |-> <<>>, label |-> "",
                 corrupt |-> {}]
  /\ run = [console |-> InitializeErrors(options), thrown |-> FALSE,
            pc |-> 0, call |-> NoCall, called |-> FALSE, reentered |-> FALSE,
            walk |-> NoWalk]

Init ==
  /\ Constructed(OptionSets)
  /\ anim = NoAnimation

\* How an operation ends: it returns, or an exception reaches the caller.
Returned == run' = [run EXCEPT !.thrown = FALSE]
Thrown == run' = [run EXCEPT !.thrown = TRUE]

\* ---------------------------------------------------------------- actions
\* Mutant: selecting a node removes its class 'hidden'.
ApplySelectNodeReveals(i, isSelected, chk) ==
  LET r == SelectNode(i, isSelected, chk)
  IN /\ selectedNodes' = r.selectedNodes
     /\ selectedClass' = r.selectedClass
     /\ checked' = r.checked
     /\ notifications' = r.notifications
     /\ selChanged' = (Range(r.selectedNodes) # Range(selectedNodes))
     /\ dom' = [dom EXCEPT !.label = r.label]
     /\ Returned
     /\ hidden' = hidden \ {i}
     /\ UNCHANGED <<options, data, expanded, highlight, searchTerm, anim>>
\* _selectNode(li, isSelected) entered with the checkboxes chk.
ApplySelectNode(i, isSelected, chk) ==
  LET r == SelectNode(i, isSelected, chk)
  IN /\ selectedNodes' = r.selectedNodes
     /\ selectedClass' = r.selectedClass
     /\ checked' = r.checked
     /\ notifications' = r.notifications
     /\ selChanged' = (Range(r.selectedNodes) # Range(selectedNodes))
     /\ dom' = [dom EXCEPT !.label = r.label]
     /\ Returned
     /\ UNCHANGED <<options, data, expanded, hidden, highlight, searchTerm, anim>>

\* Mutant: the text listener is attached with checkboxes too.
TextListenerWithCheckboxes == options.nodeSelectionEnabled

\* Whether _renderTree attaches the click listener to nodeContentWrapper.
TextListenerAttached ==
  options.nodeSelectionEnabled /\ ~options.checkboxSelectionEnabled

\* Mutant: the listener always asks for selection.
ClickAlwaysSelects(i) == "true"

\* The isSelected the click listener passes: !li.classList.contains('selected')
ClickIsSelected(i) == IF i \in selectedClass THEN "false" ELSE "true"

\* A click on the text of node i: the listener on nodeContentWrapper, which
\* is attached only with nodeSelectionEnabled and without checkboxes.
ClickNode(i) ==
  /\ lastOp' = [op |-> "click", node |-> i, arg |-> ""]
  /\ IF TextListenerAttached
     THEN ApplySelectNode(i, ClickIsSelected(i), checked)
     ELSE /\ notifications' = <<>>
          /\ selChanged' = FALSE
          /\ Returned
          /\ UNCHANGED <<options, data, selectedNodes, selectedClass, checked,
                         expanded, hidden, highlight, searchTerm, dom, anim>>

\* A change event of the checkbox of node i: the browser has flipped the
\* checkbox, the listener passes event.target.checked.
CheckboxChange(i) ==
  /\ options.checkboxSelectionEnabled
  /\ lastOp' = [op |-> "checkbox", node |-> i, arg |-> ""]
  /\ LET flipped == IF i \in checked THEN checked \ {i} ELSE checked \cup {i}
     IN ApplySelectNode(i, IF i \in flipped THEN "true" ELSE "false", flipped)

\* A call _selectNode(li, isSelected) by the host.
SelectNodeCall(i, isSelected) ==
  /\ lastOp' = [op |-> "selectNode", node |-> i, arg |-> IF isSelected = "null" THEN "null" ELSE "explicit"]
  /\ ApplySelectNode(i, isSelected, checked)

\* _toggleSelectAll(): the button or a call by the host.
ToggleSelectAll ==
  /\ lastOp' = [op |-> "toggleSelectAll", node |-> 0, arg |-> ""]
  /\ IF SelectAllGuarded
     THEN /\ notifications' = <<>>
          /\ selChanged' = FALSE
          /\ Returned
          /\ UNCHANGED <<selectedNodes, selectedClass, checked, dom>>
     ELSE IF ~Mounted
     THEN \* this.treeviewContainer.querySelectorAll: a TypeError
          /\ notifications' = <<>>
          /\ selChanged' = FALSE
          /\ Thrown
          /\ UNCHANGED <<selectedNodes, selectedClass, checked, dom>>
     ELSE LET sel == ToggleSelectAllSelected
              touched == IF ShouldSelectAll
                         THEN AllListItems \ Range(selectedNodes)
                         ELSE AllListItems \cap Range(selectedNodes)
          IN /\ selectedNodes' = sel
             /\ selectedClass' = IF ShouldSelectAll
                                 THEN selectedClass \cup touched
                                 ELSE selectedClass \ touched
             /\ checked' = IF ~options.checkboxSelectionEnabled THEN checked
                           ELSE IF ShouldSelectAll THEN checked \cup touched
                           ELSE checked \ touched
             /\ notifications' = TriggerSelectionChange(sel)
             /\ selChanged' = (Range(sel) # Range(selectedNodes))
             /\ dom' = [dom EXCEPT !.label = TriggerLabel(sel)]
             /\ Returned
  /\ UNCHANGED <<options, data, expanded, hidden, highlight, searchTerm, anim>>

\* Mutant: the nodes hidden by the filter are dropped from the selection.
HiddenDeselectedEffect ==
  /\ notifications' = <<>>
  /\ selChanged' = FALSE
  /\ selectedNodes' = SelectSeq(selectedNodes, LAMBDA x : x \notin hidden)
  /\ selectedClass' = selectedClass \ hidden
  /\ checked' = checked \ hidden
  /\ UNCHANGED <<options, data, dom, anim>>
\* Operations that leave the selection, the controls and the payloads alone.
NoSelectionEffect ==
  /\ notifications' = <<>>
  /\ selChanged' = FALSE
  /\ UNCHANGED <<options, data, selectedNodes, selectedClass, checked, dom, anim>>

\* Mutant: expanding a node collapses every other node.
ToggleExpandedAccordion(i) ==
  IF i \in expanded THEN expanded \ {i} ELSE {i}

\* Class 'expanded' after the expander listener of node i.
ToggleExpanded(i) ==
  IF i \in expanded THEN expanded \ {i} ELSE expanded \cup {i}

\* A click on the expander of node i (only nodes with children have one).
ExpanderClick(i) ==
  /\ HasChildren(data, i)
  /\ lastOp' = [op |-> "expander", node |-> i, arg |-> ""]
  /\ expanded' = ToggleExpanded(i)
  /\ NoSelectionEffect
  /\ Returned
  /\ UNCHANGED <<hidden, highlight, searchTerm>>

\* querySelectorAll('li.has-children'): the nodes with children, in document order.
HasChildrenOrder(t) ==
  SelectSeq([k \in 1..Len(TreeList[t]) |-> k], LAMBDA j : HasChildren(t, j))
Reverse(s) == [k \in 1..Len(s) |-> s[Len(s) + 1 - k]]

\* The loop of _expandAll over the nodes of order: class 'expanded' is added
\* to a node that does not carry it.
RECURSIVE ExpandVisit(_, _)
ExpandVisit(order, exp) ==
  IF order = <<>> THEN exp
  ELSE ExpandVisit(Tail(order),
                   IF Head(order) \notin exp THEN exp \cup {Head(order)} ELSE exp)

\* The loop of _collapseAll: class 'expanded' is removed from a node that
\* carries it.
RECURSIVE CollapseVisit(_, _)
CollapseVisit(order, exp) ==
  IF order = <<>> THEN exp
  ELSE CollapseVisit(Tail(order),
                     IF Head(order) \in exp THEN exp \ {Head(order)} ELSE exp)

\* Mutant: only the root nodes are visited.
ExpandAllRootsOnly ==
  ExpandVisit(SelectSeq(HasChildrenOrder(data), LAMBDA j : ParentOf(data, j) = 0),
              expanded)

\* Class 'expanded' after _expandAll (forEach, in document order) and after
\* _collapseAll (from the last node to the first).
ExpandAllExpanded == ExpandVisit(HasChildrenOrder(data), expanded)
CollapseAllExpanded == CollapseVisit(Reverse(HasChildrenOrder(data)), expanded)

ExpandAll ==
  /\ lastOp' = [op |-> "expandAll", node |-> 0, arg |-> ""]
  /\ IF Mounted
     THEN expanded' = ExpandAllExpanded /\ Returned
     ELSE expanded' = expanded /\ Thrown
  /\ NoSelectionEffect
  /\ UNCHANGED <<hidden, highlight, searchTerm>>

CollapseAll ==
  /\ lastOp' = [op |-> "collapseAll", node |-> 0, arg |-> ""]
  /\ IF Mounted
     THEN expanded' = CollapseAllExpanded /\ Returned
     ELSE expanded' = expanded /\ Thrown
  /\ NoSelectionEffect
  /\ UNCHANGED <<hidden, highlight, searchTerm>>

\* search(term) / the input listener: _searchTree(term).
Search(term) ==
  /\ lastOp' = [op |-> "search", node |-> 0, arg |-> ""]
  /\ IF ~Mounted
     THEN \* this.treeviewContainer.querySelectorAll: a TypeError
          /\ Thrown
          /\ UNCHANGED <<searchTerm, hidden, highlight, expanded>>
     ELSE IF term = <<>>
     THEN /\ searchTerm' = term
          /\ hidden' = {}
          /\ highlight' = {}
          /\ expanded' = ClearedExpanded(data)
          /\ Returned
     ELSE IF FirstCorrupt # 0
     THEN \* the reset pass is done, the match pass throws at FirstCorrupt
          /\ searchTerm' = term
          /\ hidden' = AllListItems
          /\ highlight' = {i \in MatchingNodes(data, term) : i < FirstCorrupt}
          /\ expanded' = expanded \ HasChildrenItems(data)
          /\ Thrown
     ELSE /\ searchTerm' = term
          /\ hidden' = SearchHidden(data, term)
          /\ highlight' = SearchHighlight(data, term)
          /\ expanded' = SearchExpanded(data, term)
          /\ Returned
  /\ NoSelectionEffect

\* What setData(t) writes when the container is an element: the container is
\* emptied, the selection cleared, the controls and the tree rendered anew.
SetDataWrites(t) ==
  /\ data' = t
  /\ selectedNodes' = SetDataSelected
  /\ selectedClass' = {}
  /\ checked' = {}
  /\ expanded' = DefaultExpanded(t)
  /\ hidden' = {}
  /\ highlight' = {}
  /\ searchTerm' = <<>>
  /\ dom' = [dom EXCEPT !.controls = SetDataCleared \o CreateControls(options),
                        !.label = CreatedLabel(options),
                        !.corrupt = {}]

\* setData(newData): the tree is rendered anew.
SetData(t) ==
  /\ lastOp' = [op |-> "setData", node |-> 0, arg |-> ""]
  /\ notifications' = <<>>
  /\ IF ~Mounted
     THEN \* this.treeviewContainer.innerHTML: a TypeError, data is assigned
          /\ data' = t
          /\ Thrown
          /\ selChanged' = FALSE
          /\ UNCHANGED <<selectedNodes, selectedClass, checked, expanded,
                         hidden, highlight, searchTerm, dom>>
     ELSE /\ SetDataWrites(t)
          /\ selChanged' = (selectedNodes # <<>>)
          /\ Returned
  /\ UNCHANGED <<options, anim>>

Next ==
  \/ \E i \in AllListItems : ClickNode(i)
  \/ \E i \in AllListItems : CheckboxChange(i)
  \/ \E i \in AllListItems, s \in {"null", "true", "false"} : SelectNodeCall(i, s)
  \/ ToggleSelectAll
  \/ \E i \in AllListItems : ExpanderClick(i)
  \/ ExpandAll
  \/ CollapseAll
  \/ \E term \in Queries : Search(term)
  \/ \E t \in TreeIds : SetData(t)

Spec == Init /\ [][Next]_vars

\* ================================================ the container, the controls
\* SpecMount: the same operations on instances constructed with and without a
\* container, and with every combination of the options of the controls; the
\* selection is multi-select by click or single select by checkbox.
MountOptionSets ==
  {o \in [containerId : {"null", "missing", "present"},
          searchEnabled : BOOLEAN,
          initiallyExpanded : {FALSE},
          multiSelectEnabled : BOOLEAN,
          onSelectionChange : {TRUE},
          showSelectAllButton : BOOLEAN,
          showExpandCollapseAllButtons : BOOLEAN,
          nodeSelectionEnabled : {TRUE},
          cascadeSelectChildren : {FALSE},
          checkboxSelectionEnabled : BOOLEAN] :
     o.checkboxSelectionEnabled = ~o.multiSelectEnabled}

MountInit ==
  /\ Constructed(MountOptionSets)
  /\ anim = NoAnimation

SpecMount == MountInit /\ [][Next]_vars

\* ============================================================ the animation
\* SpecAnim follows style.height of the child lists (childUl of the nodes with
\* children) through expansion, search and setData, with the callbacks these
\* leave behind: requestAnimationFrame callbacks run in the order of their
\* requests; a transitionend of a child list runs all its listeners, in the
\* order they were added, and is fired after a frame callback has changed the
\* height from one pixel length to another.
AnimOptionSets ==
  [containerId : {"present"},
   searchEnabled : {FALSE},
   initiallyExpanded : BOOLEAN,
   multiSelectEnabled : {FALSE},
   onSelectionChange : {FALSE},
   showSelectAllButton : {FALSE},
   showExpandCollapseAllButtons : {FALSE},
   nodeSelectionEnabled : {TRUE},
   cascadeSelectChildren : {FALSE},
   checkboxSelectionEnabled : {FALSE}]

\* `${childUl.scrollHeight}px`: the height of the content, a pixel length.
ScrollHeight == "px"
PixelLengths == {"0px", "px"}

\* style.height after a render: 'auto' under the nodes rendered expanded.
RenderedAnim(t) ==
  [height |-> [i \in HasChildrenItems(t) |->
                IF i \in DefaultExpanded(t) THEN "auto" ELSE ""],
   handlers |-> [i \in HasChildrenItems(t) |-> <<>>],
   moving |-> {},
   frames |-> <<>>]

AnimInit ==
  /\ Constructed(AnimOptionSets)
  /\ anim = RenderedAnim(data)

\* The expanding branch: height 0px, a frame callback that sets the scroll
\* height, a transitionend listener that sets 'auto'.
ExpandOne(a, i) ==
  [a EXCEPT !.height[i] = "0px",
            !.frames = Append(@, [node |-> i, to |-> "scrollHeight"]),
            !.handlers[i] = Append(@, "auto")]

\* The collapsing branch: the scroll height, a frame callback that sets 0px,
\* a transitionend listener that clears the height.
CollapseOne(a, i) ==
  [a EXCEPT !.height[i] = ScrollHeight,
            !.frames = Append(@, [node |-> i, to |-> "0px"]),
            !.handlers[i] = Append(@, "")]

\* An assignment of style.height outside a frame: a height that is not a
\* pixel length ends the transition under way.
SetHeight(a, i, h) ==
  [a EXCEPT !.height[i] = h,
            !.moving = IF h \in PixelLengths THEN @ ELSE @ \ {i}]

RECURSIVE ExpandEach(_, _, _)
ExpandEach(a, order, exp) ==
  IF order = <<>> THEN a
  ELSE ExpandEach(IF Head(order) \notin exp THEN ExpandOne(a, Head(order)) ELSE a,
                  Tail(order), exp)

RECURSIVE CollapseEach(_, _, _)
CollapseEach(a, order, exp) ==
  IF order = <<>> THEN a
  ELSE CollapseEach(IF Head(order) \in exp THEN CollapseOne(a, Head(order)) ELSE a,
                    Tail(order), exp)

RECURSIVE SetHeightEach(_, _, _)
SetHeightEach(a, order, h) ==
  IF order = <<>> THEN a
  ELSE SetHeightEach(SetHeight(a, Head(order), h), Tail(order), h)

\* The pending callbacks and listeners after an operation stay within bounds.
WithinPending(a) ==
  /\ Len(a.frames) <= MaxPending
  /\ \A i \in DOMAIN a.handlers : Len(a.handlers[i]) <= MaxPending

AnimOperation(op, i, a) ==
  /\ lastOp' = [op |-> op, node |-> i, arg |-> ""]
  /\ WithinPending(a)
  /\ anim' = a
  /\ notifications' = <<>>
  /\ selChanged' = FALSE
  /\ Returned
  /\ UNCHANGED <<options, selectedNodes, selectedClass, checked, dom>>

AnimExpanderClick(i) ==
  /\ HasChildren(data, i)
  /\ expanded' = ToggleExpanded(i)
  /\ AnimOperation("expander", i,
                   IF i \in expanded THEN CollapseOne(anim, i)
                   ELSE ExpandOne(anim, i))
  /\ UNCHANGED <<data, hidden, highlight, searchTerm>>

AnimExpandAll ==
  /\ expanded' = ExpandAllExpanded
  /\ AnimOperation("expandAll", 0,
                   ExpandEach(anim, HasChildrenOrder(data), expanded))
  /\ UNCHANGED <<data, hidden, highlight, searchTerm>>

AnimCollapseAll ==
  /\ expanded' = CollapseAllExpanded
  /\ AnimOperation("collapseAll", 0,
                   CollapseEach(anim, Reverse(HasChildrenOrder(data)), expanded))
  /\ UNCHANGED <<data, hidden, highlight, searchTerm>>

\* _searchTree(''): every node with children takes the collapsing branch,
\* whatever its class; with initiallyExpanded the heights are then set to
\* 'auto' and the class is added again.
AnimClearSearch ==
  LET all == HasChildrenOrder(data)
      collapsed == CollapseEach(anim, all, HasChildrenItems(data))
  IN /\ searchTerm' = <<>>
     /\ hidden' = {}
     /\ highlight' = {}
     /\ expanded' = ClearedExpanded(data)
     /\ AnimOperation("search", 0,
                      IF options.initiallyExpanded
                      THEN SetHeightEach(collapsed, all, "auto")
                      ELSE collapsed)
     /\ UNCHANGED data

\* _searchTree(term), term # '': the reset pass sets the height of every
\* child list to 0px, the last pass sets 'auto' under the ancestors of the
\* matches.
AnimSearch(term) ==
  /\ term # <<>>
  /\ searchTerm' = term
  /\ hidden' = SearchHidden(data, term)
  /\ highlight' = SearchHighlight(data, term)
  /\ expanded' = SearchExpanded(data, term)
  /\ AnimOperation("search", 0,
       SetHeightEach(SetHeightEach(anim, HasChildrenOrder(data), "0px"),
                     SelectSeq(HasChildrenOrder(data),
                               LAMBDA j : j \in AncestorsToExpand(data, term)),
                     "auto"))
  /\ UNCHANGED data

\* setData(t): the child lists are new elements; the callbacks left pending
\* write to the removed ones, which is no more followed.
AnimSetData(t) ==
  /\ SetDataWrites(t)
  /\ lastOp' = [op |-> "setData", node |-> 0, arg |-> ""]
  /\ anim' = RenderedAnim(t)
  /\ notifications' = <<>>
  /\ selChanged' = FALSE
  /\ Returned
  /\ UNCHANGED options

\* Mutant: the class is changed by the frame callback.
FrameCallbackSetsClass(f, a, exp) ==
  [anim |-> [a EXCEPT !.height[f.node] =
                        IF f.to = "0px" THEN "0px" ELSE ScrollHeight],
   expanded |-> IF f.to = "0px" THEN exp \ {f.node} ELSE exp \cup {f.node}]

\* The callback given to requestAnimationFrame: style.height is assigned;
\* a change from one pixel length to another starts a transition.
FrameCallback(f, a, exp) ==
  LET h == IF f.to = "0px" THEN "0px" ELSE ScrollHeight
      old == a.height[f.node]
  IN [anim |-> [a EXCEPT !.height[f.node] = h,
                         !.moving = IF old \in PixelLengths /\ h \in PixelLengths
                                       /\ old # h
                                    THEN @ \cup {f.node} ELSE @],
      expanded |-> exp]

\* The next animation frame runs the oldest pending callback.
RunFrame ==
  /\ anim.frames # <<>>
  /\ LET r == FrameCallback(Head(anim.frames),
                            [anim EXCEPT !.frames = Tail(@)], expanded)
     IN /\ anim' = r.anim
        /\ expanded' = r.expanded
  /\ lastOp' = [op |-> "frame", node |-> Head(anim.frames).node, arg |-> ""]
  /\ UNCHANGED <<options, data, selectedNodes, selectedClass, checked, hidden,
                 highlight, searchTerm, notifications, selChanged, dom, run>>

\* style.height after the transitionend listeners hs ran in order.
RECURSIVE RunHandlers(_, _)
RunHandlers(h, hs) == IF hs = <<>> THEN h ELSE RunHandlers(Head(hs), Tail(hs))

\* The transition of child list i ends: its listeners run and are removed.
TransitionEnd(i) ==
  /\ i \in anim.moving
  /\ anim' = [anim EXCEPT !.height[i] = RunHandlers(@, anim.handlers[i]),
                          !.handlers[i] = <<>>,
                          !.moving = @ \ {i}]
  /\ lastOp' = [op |-> "transitionend", node |-> i, arg |-> ""]
  /\ UNCHANGED <<options, data, selectedNodes, selectedClass, checked, expanded,
                 hidden, highlight, searchTerm, notifications, selChanged,
                 dom, run>>

AnimNext ==
  \/ \E i \in AllListItems : AnimExpanderClick(i)
  \/ AnimExpandAll
  \/ AnimCollapseAll
  \/ AnimClearSearch
  \/ \E term \in Queries : AnimSearch(term)
  \/ \E t \in TreeIds : AnimSetData(t)
  \/ RunFrame
  \/ \E i \in AllListItems : TransitionEnd(i)

SpecAnim == AnimInit /\ [][AnimNext]_vars

\* ======================================================= corrupted payloads
\* SpecCorrupt: the same operations, and a host (or a serialization fault)
\* that overwrites li.dataset.nodeData of a node with text JSON.parse rejects.
CorruptOptionSets ==
  {o \in [containerId : {"present"},
          searchEnabled : {FALSE},
          initiallyExpanded : {FALSE},
          multiSelectEnabled : BOOLEAN,
          onSelectionChange : {TRUE},
          showSelectAllButton : {FALSE},
          showExpandCollapseAllButtons : {FALSE},
          nodeSelectionEnabled : {TRUE},
          cascadeSelectChildren : {FALSE},
          checkboxSelectionEnabled : BOOLEAN] :
     o.checkboxSelectionEnabled = ~o.multiSelectEnabled}

CorruptInit ==
  /\ Constructed(CorruptOptionSets)
  /\ anim = NoAnimation

CorruptPayload(i) ==
  /\ i \notin dom.corrupt
  /\ Cardinality(dom.corrupt) < MaxCorrupt
  /\ lastOp' = [op |-> "corrupt", node |-> i, arg |-> ""]
  /\ dom' = [dom EXCEPT !.corrupt = @ \cup {i}]
  /\ notifications' = <<>>
  /\ selChanged' = FALSE
  /\ UNCHANGED <<options, data, selectedNodes, selectedClass, checked, expanded,
                 hidden, highlight, searchTerm, anim, run>>

CorruptNext ==
  \/ Next
  \/ \E i \in AllListItems : CorruptPayload(i)

SpecCorrupt == CorruptInit /\ [][CorruptNext]_vars

\* ============================================= a handler, statement by statement
\* SpecReentrant follows _selectNode and _toggleSelectAll through their
\* statements, with a callback that may call setData before it returns.
ReentrantOptionSets ==
  [containerId : {"present"},
   searchEnabled : {FALSE},
   initiallyExpanded : {FALSE},
   multiSelectEnabled : BOOLEAN,
   onSelectionChange : {TRUE},
   showSelectAllButton : {TRUE},
   showExpandCollapseAllButtons : {FALSE},
   nodeSelectionEnabled : {TRUE},
   cascadeSelectChildren : BOOLEAN,
   checkboxSelectionEnabled : BOOLEAN]

ReentrantInit ==
  /\ Constructed(ReentrantOptionSets)
  /\ anim = NoAnimation

\* Mutant: the callback is invoked before the selection is written.
HandlerCallbackFirst == <<"callback", "update", "label">>

\* The statements of _selectNode and of _toggleSelectAll after their guards:
\* the selection is written (the text of the button too, in _toggleSelectAll),
\* then _triggerSelectionChange invokes the callback and sets the text of the
\* select-all button.
HandlerBody == <<"update", "callback", "label">>

Running == run.pc # 0
AtStatement(st) == Running /\ HandlerBody[run.pc] = st
Advance(r) ==
  [r EXCEPT !.pc = IF run.pc = Len(HandlerBody) THEN 0 ELSE run.pc + 1]

\* A handler is entered with its arguments; nothing is written yet.
Enter(op, i, isSelected) ==
  /\ run' = [run EXCEPT !.pc = 1, !.thrown = FALSE,
                        !.call = [op |-> op, node |-> i, isSelected |-> isSelected],
                        !.called = FALSE, !.reentered = FALSE]
  /\ notifications' = <<>>
  /\ selChanged' = FALSE
  /\ UNCHANGED <<options, data, selectedNodes, selectedClass, expanded, hidden,
                 highlight, searchTerm, dom, anim>>

\* A click on the text of node i: the listener calls _selectNode.
EnterClick(i) ==
  /\ ~Running
  /\ TextListenerAttached
  /\ lastOp' = [op |-> "click", node |-> i, arg |-> ""]
  /\ Enter("selectNode", i, ClickIsSelected(i))
  /\ UNCHANGED checked

\* A change event of the checkbox of node i, which the browser has flipped.
EnterCheckbox(i) ==
  /\ ~Running
  /\ options.checkboxSelectionEnabled
  /\ lastOp' = [op |-> "checkbox", node |-> i, arg |-> ""]
  /\ checked' = (IF i \in checked THEN checked \ {i} ELSE checked \cup {i})
  /\ Enter("selectNode", i, IF i \in checked THEN "false" ELSE "true")

\* _toggleSelectAll() gets past its guards.
EnterToggleSelectAll ==
  /\ ~Running
  /\ ~SelectAllGuarded
  /\ lastOp' = [op |-> "toggleSelectAll", node |-> 0, arg |-> ""]
  /\ Enter("toggleSelectAll", 0, "")
  /\ UNCHANGED checked

\* The selection is written: lines 396-446 of _selectNode, 177-200 of
\* _toggleSelectAll.
StepUpdate ==
  /\ AtStatement("update")
  /\ IF run.call.op = "selectNode"
     THEN LET r == SelectNode(run.call.node, run.call.isSelected, checked)
          IN /\ selectedNodes' = r.selectedNodes
             /\ selectedClass' = r.selectedClass
             /\ checked' = r.checked
             /\ UNCHANGED dom
     ELSE LET touched == IF ShouldSelectAll
                         THEN AllListItems \ Range(selectedNodes)
                         ELSE AllListItems \cap Range(selectedNodes)
          IN /\ selectedNodes' = ToggleSelectAllSelected
             /\ selectedClass' = IF ShouldSelectAll
                                 THEN selectedClass \cup touched
                                 ELSE selectedClass \ touched
             /\ checked' = IF ~options.checkboxSelectionEnabled THEN checked
                           ELSE IF ShouldSelectAll THEN checked \cup touched
                           ELSE checked \ touched
             /\ dom' = [dom EXCEPT !.label =
                          IF dom.label = "" THEN ""
                          ELSE IF ShouldSelectAll THEN "Deselect All"
                          ELSE "Select All"]
  /\ selChanged' = (Range(selectedNodes') # Range(selectedNodes))
  /\ run' = Advance(run)
  /\ UNCHANGED <<options, data, expanded, hidden, highlight, searchTerm,
                 notifications, lastOp, anim>>

\* options.onSelectionChange(selectedData): the callback returns at once
\* (t = 0) or calls setData(TreeList[t]) first.
StepCallback(t) ==
  /\ AtStatement("callback")
  /\ notifications' = TriggerSelectionChange(selectedNodes)
  /\ IF t = 0
     THEN UNCHANGED <<data, selectedNodes, selectedClass, checked, expanded,
                      hidden, highlight, searchTerm, dom>>
     ELSE SetDataWrites(t)
  /\ run' = [Advance(run) EXCEPT !.called = TRUE, !.reentered = (t # 0)]
  /\ UNCHANGED <<options, selChanged, lastOp, anim>>

\* The text of the select-all button, lines 465-470; the handler returns.
StepLabel ==
  /\ AtStatement("label")
  /\ dom' = [dom EXCEPT !.label = TriggerLabel(selectedNodes)]
  /\ run' = Advance(run)
  /\ UNCHANGED <<options, data, selectedNodes, selectedClass, checked, expanded,
                 hidden, highlight, searchTerm, notifications, selChanged,
                 lastOp, anim>>

ReentrantNext ==
  \/ \E i \in AllListItems : EnterClick(i)
  \/ \E i \in AllListItems : EnterCheckbox(i)
  \/ EnterToggleSelectAll
  \/ StepUpdate
  \/ \E t \in {0} \cup TreeIds : StepCallback(t)
  \/ StepLabel

SpecReentrant == ReentrantInit /\ [][ReentrantNext]_vars

\* ===================================================== _getAllDescendants
\* SpecDescendants: _selectNode in single-select mode with
\* cascadeSelectChildren on the trees of DeepTrees, the while loop of
\* _getAllDescendants taken one iteration at a time.
DescendantOptionSets ==
  [containerId : {"present"},
   searchEnabled : {FALSE},
   initiallyExpanded : {FALSE},
   multiSelectEnabled : {FALSE},
   onSelectionChange : {TRUE},
   showSelectAllButton : {FALSE},
   showExpandCollapseAllButtons : {FALSE},
   nodeSelectionEnabled : {TRUE},
   cascadeSelectChildren : {TRUE},
   checkboxSelectionEnabled : BOOLEAN]

DescendantsInit ==
  /\ options \in DescendantOptionSets
  /\ data \in DeepTreeIds
  /\ selectedNodes = <<>>
  /\ selectedClass = {}
  /\ checked = {}
  /\ expanded = DefaultExpanded(data)
  /\ hidden = {}
  /\ highlight = {}
  /\ searchTerm = <<>>
  /\ notifications = <<>>
  /\ selChanged = FALSE
  /\ lastOp = [op |-> "new", node |-> 0, arg |-> ""]
  /\ dom = [container |-> "element", controls |-> CreateControls(options),
            label |-> CreatedLabel(options), corrupt |-> {}]
  /\ run = [console |-> InitializeErrors(options), thrown |-> FALSE,
            pc |-> 0, call |-> NoCall, called |-> FALSE, reentered |-> FALSE,
            walk |-> NoWalk]
  /\ anim = NoAnimation

\* const descendants = []; const queue = [liElement]; let head = 0;
WalkEntered(i) ==
  [active |-> TRUE, node |-> i, queue |-> <<i>>, head |-> 0,
   descendants |-> <<>>]

\* Mutant: depth first, the children are put right behind the dequeued entry.
WalkIterationDepthFirst(t, w) ==
  LET kids == ChildrenOf(t, w.queue[w.head + 1])
  IN [w EXCEPT !.head = w.head + 1,
               !.descendants = w.descendants \o kids,
               !.queue = SubSeq(w.queue, 1, w.head + 1) \o kids
                           \o SubSeq(w.queue, w.head + 2, Len(w.queue))]

\* One iteration of the while loop: queue[head++] is dequeued, each <li> of
\* its child list is pushed to descendants and to the queue.
WalkIteration(t, w) ==
  LET kids == ChildrenOf(t, w.queue[w.head + 1])
  IN [w EXCEPT !.head = w.head + 1,
               !.descendants = w.descendants \o kids,
               !.queue = w.queue \o kids]

\* while (head < queue.length)
WalkContinues(w) == w.active /\ w.head < Len(w.queue)

\* _selectNode(li, isSelected) up to its call of _getAllDescendants, or to its
\* end when the node is deselected (single select, selection enabled).
CascadeEnter(i, isSelected) ==
  /\ ~run.walk.active
  /\ lastOp' = [op |-> "selectNode", node |-> i,
                arg |-> IF isSelected = "null" THEN "null" ELSE "explicit"]
  /\ selectedClass' = (selectedClass \ Range(selectedNodes))
                        \cup (IF EffectiveIsSelected(i, isSelected, checked)
                              THEN {i} ELSE {})
  /\ IF EffectiveIsSelected(i, isSelected, checked)
     THEN /\ selectedNodes' = <<i>>
          /\ checked' = IF options.checkboxSelectionEnabled THEN {i} ELSE checked
          /\ notifications' = <<>>
          /\ run' = [run EXCEPT !.thrown = FALSE, !.walk = WalkEntered(i)]
          /\ dom' = dom
     ELSE /\ selectedNodes' = <<>>
          /\ checked' = IF options.checkboxSelectionEnabled THEN {} ELSE checked
          /\ notifications' = TriggerSelectionChange(<<>>)
          /\ run' = [run EXCEPT !.thrown = FALSE]
          /\ dom' = [dom EXCEPT !.label = TriggerLabel(<<>>)]
  /\ selChanged' = (Range(selectedNodes') # Range(selectedNodes))
  /\ UNCHANGED <<options, data, expanded, hidden, highlight, searchTerm, anim>>

\* One iteration of the loop of _getAllDescendants.
WalkStep ==
  /\ WalkContinues(run.walk)
  /\ lastOp' = [op |-> "dequeue", node |-> run.walk.queue[run.walk.head + 1],
                arg |-> ""]
  /\ run' = [run EXCEPT !.walk = WalkIteration(data, run.walk)]
  /\ selChanged' = FALSE
  /\ UNCHANGED <<options, data, selectedNodes, selectedClass, checked,
                 expanded, hidden, highlight, searchTerm, notifications, dom,
                 anim>>

\* The loop is left: _getAllDescendants returns descendants, _selectNode adds
\* them, checks their checkboxes and calls _triggerSelectionChange.
WalkReturn ==
  /\ run.walk.active
  /\ ~WalkContinues(run.walk)
  /\ lastOp' = [op |-> "return", node |-> run.walk.node, arg |-> ""]
  /\ LET sel == SetAddAll(selectedNodes, run.walk.descendants)
     IN /\ selectedNodes' = sel
        /\ selectedClass' = selectedClass \cup Range(run.walk.descendants)
        /\ checked' = IF options.checkboxSelectionEnabled
                      THEN checked \cup Range(run.walk.descendants)
                      ELSE checked
        /\ notifications' = TriggerSelectionChange(sel)
        /\ selChanged' = (Range(sel) # Range(selectedNodes))
        /\ dom' = [dom EXCEPT !.label = TriggerLabel(sel)]
  /\ run' = [run EXCEPT !.walk.active = FALSE]
  /\ UNCHANGED <<options, data, expanded, hidden, highlight, searchTerm, anim>>

DescendantsNext ==
  \/ \E i \in AllListItems, s \in {"null", "true", "false"} : CascadeEnter(i, s)
  \/ WalkStep
  \/ WalkReturn

SpecDescendants == DescendantsInit /\ [][DescendantsNext]_vars

\* The loop is synchronous code: once entered, its iterations and its return
\* are taken.
SpecDescendantsFair ==
  /\ SpecDescendants
  /\ WF_vars(WalkStep)
  /\ WF_vars(WalkReturn)
\* ======================================================= trees of two sizes
\* SpecReplace: the selection operations and setData, the host replacing the
\* tree by one with more or with fewer nodes.
ReplaceTreeIds == TreeIds \cup {Len(ShallowTrees) + 1}

ReplaceOptionSets ==
  [containerId : {"present"},
   searchEnabled : {FALSE},
   initiallyExpanded : {FALSE},
   multiSelectEnabled : BOOLEAN,
   onSelectionChange : {TRUE},
   showSelectAllButton : {TRUE},
   showExpandCollapseAllButtons : {FALSE},
   nodeSelectionEnabled : {TRUE},
   cascadeSelectChildren : BOOLEAN,
   checkboxSelectionEnabled : BOOLEAN]

ReplaceInit ==
  /\ options \in ReplaceOptionSets
  /\ data \in ReplaceTreeIds
  /\ selectedNodes = <<>>
  /\ selectedClass = {}
  /\ checked = {}
  /\ expanded = DefaultExpanded(data)
  /\ hidden = {}
  /\ highlight = {}
  /\ searchTerm = <<>>
  /\ notifications = <<>>
  /\ selChanged = FALSE
  /\ lastOp = [op |-> "new", node |-> 0, arg |-> ""]
  /\ dom = [container |-> "element", controls |-> CreateControls(options),
            label |-> CreatedLabel(options), corrupt |-> {}]
  /\ run = [console |-> InitializeErrors(options), thrown |-> FALSE,
            pc |-> 0, call |-> NoCall, called |-> FALSE, reentered |-> FALSE,
            walk |-> NoWalk]
  /\ anim = NoAnimation

ReplaceNext ==
  \/ \E i \in AllListItems : ClickNode(i)
  \/ \E i \in AllListItems : CheckboxChange(i)
  \/ \E i \in AllListItems, s \in {"null", "true", "false"} : SelectNodeCall(i, s)
  \/ ToggleSelectAll
  \/ \E t \in ReplaceTreeIds : SetData(t)

SpecReplace == ReplaceInit /\ [][ReplaceNext]_vars
\* ================================================================ claims
\* Notions of the claims, stated without the operators of the model.
RECURSIVE IsAncestor(_, _, _)
IsAncestor(t, a, j) ==
  LET p == TreeList[t][j].parent
  IN p # 0 /\ (p = a \/ IsAncestor(t, a, p))
ProperDescendants(t, i) == {j \in 1..Len(TreeList[t]) : IsAncestor(t, i, j)}
ProperAncestors(t, j) == {a \in 1..Len(TreeList[t]) : IsAncestor(t, a, j)}
WithChildren(t) == {TreeList[t][j].parent : j \in 1..Len(TreeList[t])} \ {0}

SameLetter(c, d) ==
  c = d \/ {c, d} \in {{"a", "A"}, {"b", "B"}, {"j", "J"}, {"r", "R"}}
ContainsIgnoreCase(text, q) ==
  \E k \in 0..(Len(text) - Len(q)) :
    \A m \in 1..Len(q) : SameLetter(text[k + m], q[m])
NameContains(i, q) == ContainsIgnoreCase(TreeList[data][i].name, q)
Selected == Range(selectedNodes)

\* The last operation ran _selectNode: a checkbox event, a call by the host,
\* or a click on the text while the text listener is attached.
SelectNodeRan ==
  \/ lastOp.op \in {"checkbox", "selectNode"}
  \/ /\ lastOp.op = "click"
     /\ options.nodeSelectionEnabled
     /\ ~options.checkboxSelectionEnabled

\* C1: with multiSelectEnabled=false and cascadeSelectChildren=false the
\* selection holds 0 or 1 node in every reachable state.
C1_SingleSelectAtMostOne ==
  (~options.multiSelectEnabled /\ ~options.cascadeSelectChildren)
    => (Len(selectedNodes) <= 1 /\ Cardinality(Selected) <= 1)

C1_Witness ==
  /\ ~options.multiSelectEnabled /\ ~options.cascadeSelectChildren
  /\ SelectNodeRan /\ selChanged
  /\ Len(selectedNodes) = 1
  /\ lastOp.node = 3

\* C2: with multiSelectEnabled=false and cascadeSelectChildren=true, after a
\* selectNode(id) that leaves the selection non-empty, the selection is exactly
\* id and all descendants of id.
C2_CascadeExact ==
  (/\ ~options.multiSelectEnabled /\ options.cascadeSelectChildren
   /\ SelectNodeRan /\ selectedNodes # <<>>)
    => Selected = {lastOp.node} \cup ProperDescendants(data, lastOp.node)

C2_Witness ==
  /\ ~options.multiSelectEnabled /\ options.cascadeSelectChildren
  /\ SelectNodeRan /\ data = 2 /\ lastOp.node = 1
  /\ Selected = {1, 2, 3}

\* C3: with nodeSelectionEnabled=false the selection stays empty and no
\* operation invokes onSelectionChange.
C3_DisabledNeverSelects ==
  ~options.nodeSelectionEnabled
    => (selectedNodes = <<>> /\ notifications = <<>>)

C3_Witness ==
  /\ ~options.nodeSelectionEnabled /\ options.onSelectionChange
  /\ options.checkboxSelectionEnabled /\ options.multiSelectEnabled
  /\ lastOp.op = "checkbox" /\ lastOp.node \in checked
  /\ selectedNodes = <<>>

\* C4: after setData, getSelectedNodes() returns the empty list.
C4_SetDataClearsSelection ==
  lastOp.op = "setData" => GetSelectedNodes = <<>>

C4_Witness ==
  lastOp.op = "setData" /\ selChanged /\ GetSelectedNodes = <<>>

\* C5: with multiSelectEnabled=true and selection enabled, a click on the text
\* of node id (without checkboxes) or a change of its checkbox (with
\* checkboxes) flips the membership of id and of no other node.
C5_MultiSelectToggle ==
  [][(/\ options.multiSelectEnabled /\ options.nodeSelectionEnabled
      /\ lastOp'.op = (IF options.checkboxSelectionEnabled
                       THEN "checkbox" ELSE "click"))
       => /\ (lastOp'.node \in Range(selectedNodes'))
               # (lastOp'.node \in Range(selectedNodes))
          /\ \A j \in AllListItems \ {lastOp'.node} :
               (j \in Range(selectedNodes')) = (j \in Range(selectedNodes))]_vars

C5_Witness ==
  /\ options.multiSelectEnabled /\ options.nodeSelectionEnabled
  /\ lastOp.op = (IF options.checkboxSelectionEnabled THEN "checkbox" ELSE "click")
  /\ lastOp.node \notin Selected
  /\ Cardinality(Selected) = 2

\* C6: while a non-empty query is active, a node is visible iff its name or
\* the name of one of its descendants contains the query, case-insensitively;
\* no visible node has a hidden ancestor.
C6_VisibleIffMatchBelow ==
  searchTerm # <<>> =>
    /\ \A i \in AllListItems :
         (i \notin hidden) <=>
           (\/ NameContains(i, searchTerm)
            \/ \E d \in ProperDescendants(data, i) : NameContains(d, searchTerm))
    /\ \A i \in AllListItems \ hidden : ProperAncestors(data, i) \cap hidden = {}

C6_Witness ==
  /\ searchTerm = <<"j", "r">> /\ data = 1
  /\ hidden = {1}
  /\ lastOp.op = "collapseAll"

C8_EmptySearchResets ==
  (lastOp.op = "search" /\ searchTerm = <<>>) =>
    /\ hidden = {}
    /\ highlight = {}
    /\ expanded = (IF options.initiallyExpanded THEN WithChildren(data) ELSE {})

C8_Witness ==
  /\ lastOp.op = "search" /\ searchTerm = <<>>
  /\ options.initiallyExpanded /\ data = 2
  /\ expanded = {1, 2}

\* C9: a node is highlighted only if a non-empty query is active and its own
\* name contains the query, case-insensitively.
C9_HighlightOnlyOwnMatch ==
  \A i \in highlight : searchTerm # <<>> /\ NameContains(i, searchTerm)

C9_Witness ==
  /\ searchTerm = <<"j", "r">> /\ data = 2
  /\ highlight = {3} /\ hidden = {}
  /\ {1, 2} \subseteq expanded

\* C10: with selection enabled and a callback supplied, every _selectNode and
\* every _toggleSelectAll that passes its guards invokes the callback exactly
\* once, also when the set of selected nodes is unchanged.
C10_NotifiedOncePerCall ==
  (/\ options.nodeSelectionEnabled /\ options.onSelectionChange
   /\ \/ SelectNodeRan
      \/ /\ lastOp.op = "toggleSelectAll"
         /\ options.multiSelectEnabled /\ ~options.cascadeSelectChildren)
    => Len(notifications) = 1

C10_Witness ==
  /\ options.nodeSelectionEnabled /\ options.onSelectionChange
  /\ SelectNodeRan /\ ~selChanged
  /\ selectedNodes # <<>>
  /\ Len(notifications) = 1

\* ---------------------------------------------------------------- C11-C20
NodeId(i) == TreeList[data][i].id
Ids(payload) == [k \in 1..Len(payload) |-> payload[k].id]
SelectionEnabledWithCallback ==
  options.nodeSelectionEnabled /\ options.onSelectionChange
\* The gesture by which the user selects: the checkbox where there are
\* checkboxes, the text of the node otherwise.
SelectGesture == IF options.checkboxSelectionEnabled THEN "checkbox" ELSE "click"
\* _toggleSelectAll passes its guards.
SelectAllAllowed ==
  /\ options.nodeSelectionEnabled
  /\ options.multiSelectEnabled
  /\ ~options.cascadeSelectChildren

\* C11: every operation that changes the set of selected nodes (setData
\* included) invokes the callback, once, with the new selection.
C11_EveryChangeNotified ==
  (SelectionEnabledWithCallback /\ selChanged)
    => notifications = <<GetSelectedNodes>>

\* C12: getSelectedNodes() and the payload of a notification list the selected
\* nodes, one entry per node, in insertion order: in multi-select a node that
\* is selected goes to the end, a node that is deselected leaves the order of
\* the others alone, and select-all keeps the nodes already selected first.
C12_InsertionOrder ==
  [][LET listed == GetSelectedNodes'
         before == Ids(GetSelectedNodes)
         after == Ids(listed)
         i == lastOp'.node
     IN /\ Len(listed) = Cardinality(Selected')
        /\ after = [k \in 1..Len(selectedNodes') |->
                      TreeList[data'][selectedNodes'[k]].id]
        /\ notifications' # <<>> => notifications' = <<listed>>
        /\ (/\ options.multiSelectEnabled
            /\ lastOp'.op \in {"click", "checkbox", "selectNode"})
             => IF i \notin Selected /\ i \in Selected'
                THEN after = Append(before, NodeId(i))
                ELSE IF i \in Selected /\ i \notin Selected'
                THEN after = SelectSeq(before, LAMBDA x : x # NodeId(i))
                ELSE after = before
        /\ (SelectAllAllowed /\ lastOp'.op = "toggleSelectAll"
              /\ Selected # AllListItems)
             => /\ Len(listed) = Len(Tree)
                /\ SubSeq(after, 1, Len(before)) = before]_vars

C12_Witness ==
  /\ options.multiSelectEnabled /\ SelectionEnabledWithCallback
  /\ data = 1 /\ lastOp.op = SelectGesture /\ lastOp.node = 1
  /\ Ids(GetSelectedNodes) = <<"b1", "a">>
  /\ notifications = <<GetSelectedNodes>>

C14_SelectAllDirection ==
  [][(SelectAllAllowed /\ lastOp'.op = "toggleSelectAll")
       => Selected' = (IF Cardinality(Selected) < Len(Tree)
                       THEN AllListItems ELSE {})]_vars

C14_Witness ==
  /\ SelectAllAllowed /\ lastOp.op = "toggleSelectAll"
  /\ selectedNodes = <<3, 1, 2>>

C16_ClickAlwaysSelects ==
  [][(/\ ~options.multiSelectEnabled /\ ~options.cascadeSelectChildren
      /\ options.nodeSelectionEnabled
      /\ lastOp'.op = SelectGesture)
       => Selected' = {lastOp'.node}]_vars

C18_CascadeCheckbox ==
  [][(/\ options.checkboxSelectionEnabled /\ options.nodeSelectionEnabled
      /\ ~options.multiSelectEnabled /\ options.cascadeSelectChildren
      /\ lastOp'.op = "checkbox")
       => LET i == lastOp'.node
              group == {i} \cup ProperDescendants(data, i)
          IN IF i \in checked
             THEN Selected' = {} /\ checked' = {}
             ELSE Selected' = group /\ checked' = group]_vars

C18_Witness ==
  /\ options.checkboxSelectionEnabled /\ options.nodeSelectionEnabled
  /\ ~options.multiSelectEnabled /\ options.cascadeSelectChildren
  /\ lastOp.op = "checkbox" /\ lastOp.node = 2 /\ data = 2
  /\ Selected = {2, 3} /\ checked = {2, 3}

\* C19: with checkboxes, a click on the text of a node leaves the selection
\* and every checkbox unchanged and invokes no callback.
C19_TextClickInertWithCheckboxes ==
  [][(options.checkboxSelectionEnabled /\ lastOp'.op = "click")
       => /\ UNCHANGED <<selectedNodes, selectedClass, checked>>
          /\ notifications' = <<>>]_vars

C19_Witness ==
  /\ options.checkboxSelectionEnabled /\ SelectionEnabledWithCallback
  /\ lastOp.op = "click" /\ lastOp.node \notin Selected
  /\ selectedNodes # <<>>
  /\ notifications = <<>>

\* C20: with multiSelectEnabled=true, cascadeSelectChildren has no effect: from
\* every state an operation gives what it gives with cascadeSelectChildren=false.
\* _selectNode does not read the option in its multi-select branch; what
\* select-all gives with cascadeSelectChildren=false is stated here.
C20_CascadeNoEffectInMultiSelect ==
  [][(/\ options.multiSelectEnabled /\ options.nodeSelectionEnabled
      /\ lastOp'.op = "toggleSelectAll")
       => /\ Selected' = (IF Cardinality(Selected) < Len(Tree)
                          THEN AllListItems ELSE {})
          /\ Len(notifications') = (IF options.onSelectionChange THEN 1 ELSE 0)]_vars

\* C21: after setData(newRoots), called in any reachable state (active query,
\* manual expansions, selection), no query is active, every node of the new
\* tree is visible and not highlighted, and a node with children is expanded
\* if and only if initiallyExpanded is true.
C21_SetDataResets ==
  lastOp.op = "setData"
    => /\ searchTerm = <<>>
       /\ hidden = {}
       /\ highlight = {}
       /\ expanded = (IF options.initiallyExpanded THEN WithChildren(data) ELSE {})

C21_Witness ==
  /\ lastOp.op = "setData" /\ selChanged
  /\ options.initiallyExpanded
  /\ data = 2 /\ expanded = {1, 2}

\* C22: when the onSelectionChange callback calls setData, the callback is
\* invoked only after the selection bookkeeping of the triggering selectNode /
\* select-all is complete (it is given the selection the handler has written,
\* and the handler writes no selection state after it), and when the outer
\* call returns the selection is empty: no node of the replaced tree is in it.
C22_ReentrantSetDataSafe ==
  [][/\ AtStatement("callback")
          => /\ run.pc > 1 /\ HandlerBody[run.pc - 1] = "update"
             /\ notifications' =
                  <<[k \in 1..Len(selectedNodes) |->
                      NodeData(data, selectedNodes[k])]>>
     /\ (Running /\ run.called)
          => UNCHANGED <<data, selectedNodes, selectedClass, checked>>
     /\ (~Running' /\ run'.reentered)
          => /\ selectedNodes' = <<>>
             /\ selectedClass' = {}
             /\ checked' = {}]_vars

C22_Witness ==
  /\ ~Running /\ run.reentered
  /\ lastOp.op = "toggleSelectAll"
  /\ Len(notifications) = 1 /\ Len(notifications[1]) = 3
  /\ selectedNodes = <<>>

\* C23: setData is idempotent as a state reset: from any reachable state,
\* setData(d) followed by setData(d) gives the same selection, expansion,
\* visibility and highlight state, and the same controls, as one setData(d).
C23_SetDataIdempotent ==
  [][(/\ Mounted
      /\ lastOp.op = "setData" /\ lastOp'.op = "setData"
      /\ data' = data)
       => UNCHANGED <<selectedNodes, selectedClass, checked, expanded, hidden,
                      highlight, searchTerm, dom>>]_vars

C23_Witness ==
  /\ Mounted
  /\ lastOp.op = "setData" /\ selChanged
  /\ options.searchEnabled /\ options.showExpandCollapseAllButtons
  /\ dom.label = "Select All"
  /\ dom.controls = CreateControls(options)
  /\ Len(dom.controls) = 2 /\ Len(dom.controls[2].buttons) = 3

\* C24: expandAll leaves every node that has children expanded and collapseAll
\* leaves every such node collapsed, from any reachable state (during an
\* active search too), and the result is the same in whatever order the nodes
\* are visited.
RECURSIVE VisitOrders(_)
VisitOrders(S) ==
  IF S = {} THEN {<<>>}
  ELSE UNION {{<<x>> \o o : o \in VisitOrders(S \ {x})} : x \in S}

C24_ExpandCollapseAll ==
  [][/\ lastOp'.op = "expandAll"
          => /\ WithChildren(data) \subseteq expanded'
             /\ \A o \in VisitOrders(WithChildren(data)) :
                  ExpandVisit(o, expanded) = expanded'
     /\ lastOp'.op = "collapseAll"
          => /\ WithChildren(data) \cap expanded' = {}
             /\ \A o \in VisitOrders(WithChildren(data)) :
                  CollapseVisit(o, expanded) = expanded']_vars

C24_Witness ==
  /\ lastOp.op = "expandAll"
  /\ searchTerm # <<>> /\ hidden # {}
  /\ data = 2 /\ expanded = {1, 2}

\* C25: an instance constructed without a containerId, or with a containerId
\* that names no element, is inert: the constructor reports the error and does
\* not throw, no node and no control is rendered, and the selection is empty:
\* getSelectedNodes() returns the empty list.
C25_InertWithoutContainer ==
  options.containerId # "present"
    => /\ ~Mounted
       /\ AllListItems = {}
       /\ dom.controls = <<>>
       /\ selectedClass = {} /\ expanded = {} /\ hidden = {} /\ highlight = {}
       /\ selectedNodes = <<>>
       /\ GetSelectedNodes = <<>>
       /\ Len(run.console) = 1
       /\ (lastOp.op = "new" => ~run.thrown)

C25_Witness ==
  /\ options.containerId = "missing"
  /\ lastOp.op = "new"
  /\ run.console = <<"Element with ID not found.">>
  /\ GetSelectedNodes = <<>>

\* C26: when the stored payload of a node cannot be read back, every operation
\* that reads stored payloads (getSelectedNodes, the selection notification,
\* search) recovers and raises no error: the selection query returns one entry
\* per selected node, a record of just id and name for a corrupted node and
\* the full data for the others.
C26_CorruptPayloadRecovered ==
  /\ lastOp.op \in {"search", "click", "checkbox", "selectNode", "toggleSelectAll"}
       => ~run.thrown
  /\ Len(GetSelectedNodes) = Len(selectedNodes)
  /\ \A k \in 1..Len(selectedNodes) :
       LET i == selectedNodes[k]
           entry == GetSelectedNodes[k]
       IN IF i \in dom.corrupt
          THEN DOMAIN entry = {"id", "name"} /\ entry.id = TreeList[data][i].id
          ELSE entry = [id |-> TreeList[data][i].id, name |-> TreeList[data][i].name]
  /\ notifications # <<>> => notifications = <<GetSelectedNodes>>

\* No requestAnimationFrame callback and no transitionend listener is pending.
Drained ==
  /\ anim.frames = <<>>
  /\ \A i \in DOMAIN anim.handlers : anim.handlers[i] = <<>>

\* C27: after a search was cleared or a node expanded or collapsed, once every
\* pending animation callback has run, in any interleaving with later
\* operations, the height of each child list agrees with the flag of its
\* node: not 0px under an expanded node, neither 'auto' nor a positive pixel
\* height under a collapsed one.
C27_HeightAgreesWhenDrained ==
  Drained
    => \A i \in WithChildren(data) :
         /\ i \in expanded => anim.height[i] # "0px"
         /\ i \notin expanded => anim.height[i] \notin {"auto", "px"}

\* C28: the expanded, selected, hidden and highlight flags change only inside
\* the operation invoked: no requestAnimationFrame callback and no
\* transitionend listener changes one of them, in whatever interleaving with
\* later operations they run.
C28_CallbacksLeaveFlags ==
  [][lastOp'.op \in {"frame", "transitionend"}
       => UNCHANGED <<expanded, selectedNodes, selectedClass, checked, hidden,
                      highlight>>]_vars

C28_Witness ==
  /\ lastOp.op = "frame"
  /\ searchTerm # <<>> /\ hidden # {}
  /\ lastOp.node \notin expanded
  /\ anim.height[lastOp.node] = "px"

\* ------------------------------------------------------------------- C29
\* C29: a click on the expander of a node with children flips the expanded
\* flag of exactly that node; the expansion of every other node, the
\* selection, the checkboxes and the hidden and highlight flags are
\* unchanged, and the callback is not called.
C29_ExpanderFlipsOneNode ==
  [][lastOp'.op = "expander"
       => /\ HasChildren(data, lastOp'.node)
          /\ (lastOp'.node \in expanded') <=> (lastOp'.node \notin expanded)
          /\ \A j \in AllListItems \ {lastOp'.node} :
               (j \in expanded') <=> (j \in expanded)
          /\ UNCHANGED <<selectedNodes, selectedClass, checked, hidden,
                         highlight>>
          /\ notifications' = <<>>]_vars

C29_Witness ==
  /\ lastOp.op = "expander"
  /\ lastOp.node \notin expanded
  /\ \E j \in expanded : j # lastOp.node
  /\ selectedNodes # <<>>
  /\ hidden # {}

\* ------------------------------------------------------------------- C30
\* C30: a call of _selectNode without an explicit state toggles the node:
\* with selection enabled the node is a member of the selection afterwards
\* exactly when it was not before, under every option combination, checkboxes
\* included.
C30_SelectNodeNullToggles ==
  [][(lastOp'.op = "selectNode" /\ lastOp'.arg = "null"
        /\ options.nodeSelectionEnabled)
       => ((lastOp'.node \in Selected') <=> (lastOp'.node \notin Selected))]_vars

\* ------------------------------------------------------------------- C31
\* C31: the selection operations (a click on the text, a checkbox event, a
\* call of _selectNode, _toggleSelectAll) leave the classes 'expanded',
\* 'hidden' and 'highlight' of every node unchanged.
C31_SelectionLeavesExpansionAndSearch ==
  [][lastOp'.op \in {"click", "checkbox", "selectNode", "toggleSelectAll"}
       => UNCHANGED <<expanded, hidden, highlight>>]_vars

C31_Witness ==
  /\ lastOp.op = "selectNode"
  /\ selChanged
  /\ lastOp.node \in hidden
  /\ lastOp.node \in Selected
  /\ expanded # {}
  /\ highlight # {}

\* ------------------------------------------------------------------- C32
\* C32: _searchTree (with an empty or a non-empty term), _expandAll and
\* _collapseAll leave this.selectedNodes, the classes 'selected' and the
\* checkboxes unchanged and do not call the callback: a node hidden by the
\* filter stays selected, and getSelectedNodes() returns what it returned
\* before.
C32_SearchAndExpansionLeaveSelection ==
  [][lastOp'.op \in {"search", "expandAll", "collapseAll"}
       => /\ UNCHANGED <<selectedNodes, selectedClass, checked>>
          /\ notifications' = <<>>
          /\ GetSelectedNodes' = GetSelectedNodes]_vars

C32_Witness ==
  /\ lastOp.op = "search"
  /\ searchTerm # <<>>
  /\ \E k \in 1..Len(selectedNodes) :
       /\ selectedNodes[k] \in hidden
       /\ GetSelectedNodes[k] = NodeData(data, selectedNodes[k])
  /\ \E i \in Selected : i \notin hidden
  /\ options.onSelectionChange

\* ------------------------------------------------------------------- C33
\* C33: immediately after _searchTree(q) with a non-empty q the expanded
\* nodes are exactly the proper ancestors of the nodes whose name contains q:
\* every other node with children (a hidden one, a match none of whose
\* descendants matches) is collapsed, whatever was expanded before and
\* whatever initiallyExpanded is.
C33_SearchExpandsExactlyAncestors ==
  (lastOp.op = "search" /\ searchTerm # <<>>)
    => \A a \in AllListItems :
         a \in expanded
           <=> \E j \in AllListItems :
                 NameContains(j, searchTerm) /\ IsAncestor(data, a, j)

C33_Witness ==
  /\ lastOp.op = "search"
  /\ searchTerm # <<>>
  /\ options.initiallyExpanded
  /\ expanded # {}
  /\ \E i \in WithChildren(data) :
       /\ NameContains(i, searchTerm)
       /\ i \notin expanded

\* ------------------------------------------------------------------- C34
\* C34: in every reachable state only nodes with at least one child carry
\* class 'expanded': a leaf is never expanded by the render, an expander
\* click, _expandAll, _searchTree or setData.
C34_OnlyParentsExpanded ==
  \A i \in expanded :
    /\ i \in AllListItems
    /\ \E j \in AllListItems : TreeList[data][j].parent = i

C34_Witness ==
  /\ lastOp.op = "expandAll"
  /\ Cardinality(expanded) = 2
  /\ \E i \in AllListItems : i \notin expanded
  /\ searchTerm # <<>>

\* ------------------------------------------------------------------- C35
\* How many child lists lie between node i and its proper descendant j.
RECURSIVE DepthBelow(_, _, _)
DepthBelow(t, i, j) ==
  IF TreeList[t][j].parent = i THEN 1
  ELSE 1 + DepthBelow(t, i, TreeList[t][j].parent)

PositionIn(s, e) == CHOOSE k \in 1..Len(s) : s[k] = e

\* s lists the proper descendants of i once each, level by level: siblings in
\* input order, the children of an earlier node before those of a later one.
BreadthFirstBelow(t, i, s) ==
  /\ Range(s) = ProperDescendants(t, i)
  /\ Len(s) = Cardinality(ProperDescendants(t, i))
  /\ i \notin Range(s)
  /\ \A p, q \in 1..Len(s) :
       p < q =>
         /\ DepthBelow(t, i, s[p]) <= DepthBelow(t, i, s[q])
         /\ DepthBelow(t, i, s[p]) = DepthBelow(t, i, s[q]) =>
              IF TreeList[t][s[p]].parent = TreeList[t][s[q]].parent
              THEN s[p] < s[q]
              ELSE PositionIn(s, TreeList[t][s[p]].parent)
                     < PositionIn(s, TreeList[t][s[q]].parent)

\* C35: _getAllDescendants returns every proper descendant of the node exactly
\* once and never the node, in breadth-first order (children in input order
\* before grandchildren); with cascadeSelectChildren the selection is, in
\* insertion order, the node followed by that sequence.
C35_BreadthFirstDescendants ==
  lastOp.op = "return"
    => /\ BreadthFirstBelow(data, lastOp.node, run.walk.descendants)
       /\ run.walk.descendants = GetAllDescendants(data, lastOp.node)
       /\ selectedNodes = <<lastOp.node>> \o run.walk.descendants

C35_Witness ==
  /\ lastOp.op = "return"
  /\ Len(run.walk.descendants) = 5
  /\ \E p, q \in 1..Len(run.walk.descendants) :
       p < q /\ run.walk.descendants[p] > run.walk.descendants[q]
  /\ Len(selectedNodes) = 6

\* ------------------------------------------------------------------- C36
\* C36: _getAllDescendants terminates for every node of every tree: its queue
\* never holds more entries than the tree has nodes and never the same entry
\* twice, each iteration dequeues the next entry, and a loop that was entered
\* is left.
C36_WalkTerminates ==
  /\ [](run.walk.active
          => /\ Len(run.walk.queue) <= Len(TreeList[data])
             /\ run.walk.head <= Len(run.walk.queue)
             /\ Cardinality(Range(run.walk.queue)) = Len(run.walk.queue))
  /\ [][lastOp'.op = "dequeue"
          => /\ run'.walk.head = run.walk.head + 1
             /\ lastOp'.node = run.walk.queue[run.walk.head + 1]
             /\ SubSeq(run'.walk.queue, 1, Len(run.walk.queue)) = run.walk.queue]_vars
  /\ (run.walk.active ~> ~run.walk.active)

C36_Witness ==
  /\ run.walk.active
  /\ Len(run.walk.queue) = Len(TreeList[data])
  /\ run.walk.head = Len(run.walk.queue)
  /\ Len(run.walk.queue) = 6

\* ------------------------------------------------------------------- C37
\* C37: in every reachable state every member of this.selectedNodes is a <li>
\* of the rendered tree, once: setData leaves no element of the replaced tree
\* in it, so its size never exceeds the number of <li> that _toggleSelectAll
\* and the text of its button compare it with.
C37_SelectionWithinRenderedTree ==
  /\ Selected \subseteq AllListItems
  /\ Len(selectedNodes) = Cardinality(Selected)
  /\ Len(selectedNodes) <= Cardinality(AllListItems)
  /\ lastOp.op = "setData" => selectedNodes = <<>>

C37_Witness ==
  /\ Len(TreeList[data]) = 3
  /\ Len(selectedNodes) = 3
  /\ dom.label = "Deselect All"
  /\ lastOp.op = "toggleSelectAll"
  /\ options.checkboxSelectionEnabled

C39_CheckboxIsMembership ==
  options.checkboxSelectionEnabled => checked = Selected

\* ------------------------------------------------------------------- C40
\* C40: _toggleSelectAll during a non-empty search counts and selects every
\* node of the tree, the nodes hidden by the filter included: when fewer than
\* all nodes are selected it selects them all, the hidden nodes stay hidden,
\* and getSelectedNodes() then returns the hidden nodes as well as the
\* visible ones.
C40_SelectAllIncludesHidden ==
  [][(/\ lastOp'.op = "toggleSelectAll"
      /\ SelectAllAllowed
      /\ searchTerm # <<>>
      /\ Len(selectedNodes) < Len(TreeList[data]))
       => /\ Selected' = AllListItems
          /\ hidden' = hidden
          /\ LET got == GetSelectedNodes'
             IN \A i \in AllListItems :
                  \E k \in 1..Len(got) : got[k] = NodeData(data, i)]_vars

C40_Witness ==
  /\ lastOp.op = "toggleSelectAll"
  /\ SelectAllAllowed
  /\ searchTerm # <<>>
  /\ selChanged
  /\ Selected = AllListItems
  /\ selectedNodes[1] \notin hidden
  /\ selectedNodes[Len(selectedNodes)] \in hidden
  /\ \E k \in 1..Len(GetSelectedNodes) :
       GetSelectedNodes[k] = NodeData(data, selectedNodes[Len(selectedNodes)])

====
